---------------------------- MODULE Spec2Model ----------------------------
(***************************************************************************)
(* Model of upython/wifiESP32/src/lib/wifiman.py: the PBKDF2 key           *)
(* derivation (class PBKDF2), the NVS credential store (class PSKSTORAGE)  *)
(* and the connection procedure wifi_connect.                              *)
(*                                                                         *)
(* Python values are modelled as records [kind, data]:                     *)
(*   kind = "str"    data = sequence of code points                        *)
(*   kind = "bytes"  data = sequence of bytes 0..255                       *)
(*   kind = "False"  the value False (data empty)                          *)
(*   kind = "None"   the value None  (data empty)                          *)
(* so that == between values of different types is false, as in Python.    *)
(***************************************************************************)
EXTENDS Integers, Sequences, FiniteSets, TLC

(***************************************************************************)
(* Bounds of the model.                                                    *)
(***************************************************************************)
\* wpa_psk passes iterations = 4096 (wifiman.py:97); the model runs the same
\* loop with a scaled-down iteration count.
WpaIterations == 2
\* timeout argument of wifi_connect ranges over 0..MaxTimeout
MaxTimeout == 2

(***************************************************************************)
(* Program constants.                                                      *)
(***************************************************************************)
BlockSize == 64
HLen == 20
WpaDkLen == 256
ReadBufLen == 1024
ProgressEvery == 128

(***************************************************************************)
(* Python values.                                                          *)
(***************************************************************************)
Str(s) == [kind |-> "str", data |-> s]
Bytes(b) == [kind |-> "bytes", data |-> b]
FalseVal == [kind |-> "False", data |-> <<>>]
NoneVal == [kind |-> "None", data |-> <<>>]

\* truth value of a Python object: False, None and empty str/bytes are falsy
Truthy(v) == v.kind \in {"str", "bytes"} /\ v.data # <<>>

RECURSIVE Concat(_)
Concat(ss) == IF ss = <<>> THEN <<>> ELSE Head(ss) \o Concat(Tail(ss))

\* str.encode() / bytes(s, "UTF8"): UTF-8 of code points below 0x800
Utf8Char(c) ==
    IF c < 128 THEN <<c>> ELSE <<192 + (c \div 64), 128 + (c % 64)>>

Utf8(s) == Concat([i \in 1..Len(s) |-> Utf8Char(s[i])])

\* bytes.hex(): two lowercase hex digits per byte
HexDigit(n) == IF n < 10 THEN 48 + n ELSE 87 + n

Hex(b) == Concat([i \in 1..Len(b) |-> <<HexDigit(b[i] \div 16), HexDigit(b[i] % 16)>>])

\* bytes(x, "UTF8") under MicroPython: a str is encoded, a bytes object is
\* returned as it is
ToBytes(v) == IF v.kind = "str" THEN Bytes(Utf8(v.data)) ELSE v

\* the bytes the buffer protocol exposes (what set_blob stores)
Buffer(v) == IF v.kind = "str" THEN Utf8(v.data) ELSE v.data

(***************************************************************************)
(* class PBKDF2                                                            *)
(***************************************************************************)
RECURSIVE XorBits(_, _, _)
XorBits(a, b, n) ==
    IF n = 0 THEN 0
    ELSE ((a + b) % 2) + 2 * XorBits(a \div 2, b \div 2, n - 1)

Xor8(a, b) == XorBits(a, b, 8)

XorBytes(x, y) == [j \in 1..Len(x) |-> Xor8(x[j], y[j])] \o <<>>

\* hashlib.sha1(m).digest(): the library hash is abstracted by a 20-byte
\* digest computed from a position-weighted checksum of the message.
RECURSIVE Mix(_, _, _)
Mix(m, lo, hi) ==
    IF lo > hi THEN 0
    ELSE IF lo = hi THEN (m[lo] + 1) * (((lo * lo) % 97) + 1)
    ELSE LET mid == (lo + hi) \div 2
         IN  (Mix(m, lo, mid) + Mix(m, mid + 1, hi)) % 65521

Sha1(m) ==
    LET h == (Mix(m, 1, Len(m)) + 7 * Len(m) + 7) % 65521
        a == h % 251
        b == h \div 251
    IN  [j \in 1..HLen |-> (((a + j) * (b + 3 * j)) \div 7 + a) % 256] \o <<>>

Zeros(n) == [j \in 1..n |-> 0] \o <<>>

hmac_sha1(key, msg) ==
    LET k1 == IF Len(key) > BlockSize THEN Sha1(key) ELSE key
        k == k1 \o Zeros(BlockSize - Len(k1))
        o_key_pad == [j \in 1..Len(k) |-> Xor8(k[j], 92)] \o <<>>
        i_key_pad == [j \in 1..Len(k) |-> Xor8(k[j], 54)] \o <<>>
    IN  Sha1(o_key_pad \o Sha1(i_key_pad \o msg))

\* i.to_bytes(4, "big")
Be32(i) == << (i \div 16777216) % 256, (i \div 65536) % 256, (i \div 256) % 256, i % 256 >>

\* the inner loop `for _ in range(1, iterations)` of one block: n rounds left
RECURSIVE InnerLoop(_, _, _, _)
InnerLoop(password, u, t, n) ==
    IF n <= 0 THEN t
    ELSE LET u2 == hmac_sha1(password, u)
         IN  InnerLoop(password, u2, XorBytes(t, u2), n - 1)

\* a second MAC with the same signature, to tell the supplied prf from the
\* built-in one
other_mac(key, msg) == Sha1(key \o msg)

\* prf(key, msg): a call of the MAC capability handed to derive
CallPrf(prf, key, msg) ==
    IF prf = "hmac_sha1" THEN hmac_sha1(key, msg) ELSE other_mac(key, msg)

\* one pass of `for i in range(1, l + 1)`
DeriveBlock(password, salt, iterations, i, prf) ==
    LET u == CallPrf(prf, password, salt \o Be32(i))
    IN  InnerLoop(password, u, u, iterations - 1)

\* the values progress_cb receives: int(100 * done / tot) at every done that
\* is a multiple of 128, then 100
ProgressCalls(iterations, l) ==
    LET tot == iterations * l
        inner == (iterations - 1) * l
        n == inner \div ProgressEvery
    IN  [k \in 1..n |-> (100 * k * ProgressEvery) \div tot] \o <<100>>

\* PBKDF2.derive: [err, dk, prfCalls, hmacCalls, progress]
derive(password, salt, iterations, dklen, prf) ==
    LET pw == Buffer(password)
        sl == Buffer(salt)
        dkbytes == dklen \div 8
        l == (dkbytes + HLen - 1) \div HLen
        dk == Concat([i \in 1..l |-> DeriveBlock(pw, sl, iterations, i, prf)])
    IN  IF dklen % 8 # 0
        THEN [err |-> "ValueError", dk |-> <<>>, prfCalls |-> 0, hmacCalls |-> 0,
              progress |-> <<>>]
        ELSE [err |-> "none", dk |-> SubSeq(dk, 1, dkbytes), prfCalls |-> l,
              hmacCalls |-> l * (iterations - 1),
              progress |-> ProgressCalls(iterations, l)]

wpa_psk(ssid, password) == derive(password, ssid, WpaIterations, WpaDkLen, "hmac_sha1")

(***************************************************************************)
(* Inputs of the model.                                                    *)
(***************************************************************************)
\* network names "a" and "é" (the second one is two bytes in UTF-8)
IdSeq == << <<97>>, <<233>> >>
Ids == {IdSeq[k] : k \in 1..Len(IdSeq)}
\* passwords "p" and "q"
PasswordSeq == << <<112>>, <<113>> >>
Passwords == {PasswordSeq[k] : k \in 1..Len(PasswordSeq)}
\* text secrets handed to write: "" and "é"
TextSecrets == {<<>>, <<233>>}

\* the values of the pure function wpa_psk on the inputs of the model
WpaPskRows ==
    [a \in 1..Len(IdSeq) |->
        [b \in 1..Len(PasswordSeq) |-> wpa_psk(Str(IdSeq[a]), Str(PasswordSeq[b]))] \o <<>>]
    \o <<>>

VARIABLES
    derived,  \* wpa_psk on the model's networks and passwords (never changes)
    nvs,      \* esp32.NVS("ssid"): key -> Bytes(blob), or NoneVal for no key
    dirty,    \* a set_blob / erase_key not yet followed by commit
    last,     \* the last PSKSTORAGE call and what it did
    prev,     \* the PSKSTORAGE call before it, if it was a write without fault
    wlan,     \* network.WLAN(network.STA_IF): [active, essid, target, key]
    w,        \* the wifi_connect call in progress (of the running thread)
    parked,   \* the wifi_connect call of the thread that is not running
    kdf       \* the PBKDF2.derive call in progress

vars == <<derived, nvs, dirty, last, prev, wlan, w, parked, kdf>>

\* wpa_psk(ssid, passwd), looked up
WpaPskTable(i, p) ==
    derived[CHOOSE a \in 1..Len(IdSeq) : IdSeq[a] = i]
           [CHOOSE b \in 1..Len(PasswordSeq) : PasswordSeq[b] = p]

\* the secrets write is called with: text, and derived byte sequences
Secrets(ssid) ==
    {Str(s) : s \in TextSecrets} \cup {Bytes(WpaPskTable(ssid, p).dk) : p \in Passwords}

\* the backend call that raises an I/O error during one operation, if any
ReadFaults == {"none", "get_blob"}
WriteFaults == {"none", "get_blob", "set_blob", "commit"}
RemoveFaults == {"none", "erase_key", "commit"}


(***************************************************************************)
(* class PSKSTORAGE                                                        *)
(***************************************************************************)
\* read returning an empty blob where the code returns False
MutReadEmpty(store, ssid, fault) ==
    IF fault = "get_blob" \/ store[ssid] = NoneVal
    THEN Bytes(<<>>)
    ELSE store[ssid]

\* PSKSTORAGE.read: bytes of the blob, or False on any exception (missing
\* key, blob longer than the 1024-byte buffer, I/O error)
read(store, ssid, fault) ==
    IF fault = "get_blob" THEN FalseVal
    ELSE IF store[ssid] = NoneVal THEN FalseVal
    ELSE IF Len(store[ssid].data) > ReadBufLen THEN FalseVal
    ELSE Bytes(store[ssid].data)

\* write without the comparison of lines 133-134: set_blob every time
MutWriteAlways(store, d, ssid, psk, fault) ==
    IF fault = "set_blob"
    THEN [res |-> FALSE, store |-> store, dirty |-> d, sets |-> 0, commits |-> 0]
    ELSE [res |-> fault # "commit",
          store |-> [store EXCEPT ![ssid] = Bytes(Buffer(psk))],
          dirty |-> fault = "commit", sets |-> 1,
          commits |-> IF fault = "commit" THEN 0 ELSE 1]

\* write reporting success though commit raised
MutWriteUncommitted(store, d, ssid, psk, fault) ==
    LET ulozeny == read(store, ssid, fault)
    IN  IF ulozeny = ToBytes(psk)
        THEN [res |-> TRUE, store |-> store, dirty |-> d, sets |-> 0, commits |-> 0]
        ELSE IF fault = "set_blob"
        THEN [res |-> FALSE, store |-> store, dirty |-> d, sets |-> 0, commits |-> 0]
        ELSE IF fault = "commit"
        THEN [res |-> TRUE, store |-> [store EXCEPT ![ssid] = Bytes(Buffer(psk))],
              dirty |-> TRUE, sets |-> 1, commits |-> 0]
        ELSE [res |-> TRUE, store |-> [store EXCEPT ![ssid] = Bytes(Buffer(psk))],
              dirty |-> FALSE, sets |-> 1, commits |-> 1]

\* PSKSTORAGE.write: [res, store, dirty, sets, commits]
write(store, d, ssid, psk, fault) ==
    LET ulozeny == read(store, ssid, fault)
    IN  IF ulozeny = ToBytes(psk)
        THEN [res |-> TRUE, store |-> store, dirty |-> d, sets |-> 0, commits |-> 0]
        ELSE IF fault = "set_blob"
        THEN [res |-> FALSE, store |-> store, dirty |-> d, sets |-> 0, commits |-> 0]
        ELSE IF fault = "commit"
        THEN [res |-> FALSE, store |-> [store EXCEPT ![ssid] = Bytes(Buffer(psk))],
              dirty |-> TRUE, sets |-> 1, commits |-> 0]
        ELSE [res |-> TRUE, store |-> [store EXCEPT ![ssid] = Bytes(Buffer(psk))],
              dirty |-> FALSE, sets |-> 1, commits |-> 1]

\* store_psk skipping the derivation when a record exists
MutStoreSkip(store, d, ssid, passwd, fault) ==
    LET dkey == WpaPskTable(ssid, passwd)
        wr == write(store, d, ssid, Bytes(dkey.dk), fault)
    IN  IF store[ssid] # NoneVal
        THEN [res |-> TRUE, store |-> store, dirty |-> d, sets |-> 0, commits |-> 0,
              mac |-> 0]
        ELSE [res |-> TRUE, store |-> wr.store, dirty |-> wr.dirty, sets |-> wr.sets,
              commits |-> wr.commits, mac |-> dkey.prfCalls + dkey.hmacCalls]

\* PSKSTORAGE.store_psk: derives, calls write, and returns True unless an
\* exception reaches it; write catches its own exceptions
store_psk(store, d, ssid, passwd, fault) ==
    LET dkey == WpaPskTable(ssid, passwd)
        wr == write(store, d, ssid, Bytes(dkey.dk), fault)
    IN  IF dkey.err # "none"
        THEN [res |-> FALSE, store |-> store, dirty |-> d, sets |-> 0, commits |-> 0,
              mac |-> 0]
        ELSE [res |-> TRUE, store |-> wr.store, dirty |-> wr.dirty, sets |-> wr.sets,
              commits |-> wr.commits, mac |-> dkey.prfCalls + dkey.hmacCalls]

\* PSKSTORAGE.load_psk: [err, val]
load_psk(store, ssid, fault) ==
    LET psk == read(store, ssid, fault)
    IN  IF psk.kind = "False"
        THEN [err |-> "Chybka", val |-> NoneVal]
        ELSE [err |-> "none", val |-> Str(Hex(psk.data))]

\* remove_psk reporting success where the code returns False
MutRemoveSilent(store, d, ssid, fault) ==
    IF fault = "erase_key" \/ store[ssid] = NoneVal
    THEN [res |-> TRUE, store |-> store, dirty |-> d, erases |-> 0, commits |-> 0]
    ELSE [res |-> fault # "commit", store |-> [store EXCEPT ![ssid] = NoneVal],
          dirty |-> fault = "commit", erases |-> 1,
          commits |-> IF fault = "commit" THEN 0 ELSE 1]

\* PSKSTORAGE.remove_psk: [res, store, dirty, erases, commits]
remove_psk(store, d, ssid, fault) ==
    IF fault = "erase_key" \/ store[ssid] = NoneVal
    THEN [res |-> FALSE, store |-> store, dirty |-> d, erases |-> 0, commits |-> 0]
    ELSE IF fault = "commit"
    THEN [res |-> FALSE, store |-> [store EXCEPT ![ssid] = NoneVal], dirty |-> TRUE,
          erases |-> 1, commits |-> 0]
    ELSE [res |-> TRUE, store |-> [store EXCEPT ![ssid] = NoneVal], dirty |-> FALSE,
          erases |-> 1, commits |-> 1]

\* the record kept of one PSKSTORAGE call
NoCall ==
    [op |-> "none", ssid |-> <<>>, arg |-> NoneVal, fault |-> "none", res |-> NoneVal,
     ok |-> FALSE, before |-> NoneVal, sets |-> 0, erases |-> 0, commits |-> 0, mac |-> 0]

Call(op, ssid, arg, fault, res, ok, sets, erases, commits, mac) ==
    [op |-> op, ssid |-> ssid, arg |-> arg, fault |-> fault, res |-> res, ok |-> ok,
     before |-> nvs[ssid], sets |-> sets, erases |-> erases, commits |-> commits,
     mac |-> mac]

\* what is kept of the call before the last one: a write that met no fault
Earlier(c) ==
    IF c.op = "write" /\ c.fault = "none"
    THEN [op |-> c.op, ssid |-> c.ssid, arg |-> c.arg, ok |-> c.ok,
          had |-> c.before = Bytes(Buffer(c.arg)), sets |-> c.sets]
    ELSE [op |-> "none", ssid |-> <<>>, arg |-> NoneVal, ok |-> FALSE, had |-> FALSE,
          sets |-> 0]

Idle == w.pc = "idle"

Read(ssid, fault) ==
    /\ Idle
    /\ last' = Call("read", ssid, NoneVal, fault, read(nvs, ssid, fault),
                    read(nvs, ssid, fault).kind # "False", 0, 0, 0, 0)
    /\ prev' = Earlier(last)
    /\ UNCHANGED <<derived, parked, kdf, nvs, dirty, wlan, w>>

Write(ssid, psk, fault) ==
    LET r == write(nvs, dirty, ssid, psk, fault)
    IN  /\ Idle
        /\ nvs' = r.store
        /\ dirty' = r.dirty
        /\ last' = Call("write", ssid, psk, fault, NoneVal, r.res, r.sets, 0, r.commits, 0)
        /\ prev' = Earlier(last)
        /\ UNCHANGED <<derived, parked, kdf, wlan, w>>

StorePsk(ssid, passwd, fault) ==
    LET r == store_psk(nvs, dirty, ssid, passwd, fault)
    IN  /\ Idle
        /\ nvs' = r.store
        /\ dirty' = r.dirty
        /\ last' = Call("store_psk", ssid, Str(passwd), fault, NoneVal, r.res, r.sets, 0,
                        r.commits, r.mac)
        /\ prev' = Earlier(last)
        /\ UNCHANGED <<derived, parked, kdf, wlan, w>>

LoadPsk(ssid, fault) ==
    LET r == load_psk(nvs, ssid, fault)
    IN  /\ Idle
        /\ last' = Call("load_psk", ssid, NoneVal, fault, r.val, r.err = "none", 0, 0, 0, 0)
        /\ prev' = Earlier(last)
        /\ UNCHANGED <<derived, parked, kdf, nvs, dirty, wlan, w>>

RemovePsk(ssid, fault) ==
    LET r == remove_psk(nvs, dirty, ssid, fault)
    IN  /\ Idle
        /\ nvs' = r.store
        /\ dirty' = r.dirty
        /\ last' = Call("remove_psk", ssid, NoneVal, fault, NoneVal, r.res, 0, r.erases,
                        r.commits, 0)
        /\ prev' = Earlier(last)
        /\ UNCHANGED <<derived, parked, kdf, wlan, w>>

StoreNext ==
    \/ \E ssid \in Ids, fault \in ReadFaults : Read(ssid, fault)
    \/ \E ssid \in Ids, fault \in WriteFaults : \E psk \in Secrets(ssid) : Write(ssid, psk, fault)
    \/ \E ssid \in Ids, passwd \in Passwords, fault \in WriteFaults : StorePsk(ssid, passwd, fault)
    \/ \E ssid \in Ids, fault \in ReadFaults : LoadPsk(ssid, fault)
    \/ \E ssid \in Ids, fault \in RemoveFaults : RemovePsk(ssid, fault)

(***************************************************************************)
(* wifi_connect                                                            *)
(***************************************************************************)
\* callback_fc: "none" (no callback given), "unusable" (returns None),
\* "secret" (returns the text secret "p")
Callbacks == {"none", "unusable", "secret"}

CallbackReturn(cb) == IF cb = "secret" THEN Str(<<112>>) ELSE NoneVal

WIdle ==
    [pc |-> "idle", ssid |-> <<>>, cb |-> "none", timeout |-> 0, rec |-> NoneVal,
     psk |-> NoneVal, i |-> 0, calls |-> <<>>, cbCalls |-> 0, mac |-> 0,
     err |-> "none", cause |-> "none", raised |-> FALSE, seen |-> FALSE]

\* wifi_connect going on with a default secret where load_psk raises
MutResolveDefault(store, ssid, cb, fault) ==
    LET psk == load_psk(store, ssid, fault)
    IN  IF psk.err # "none"
        THEN [err |-> "none", psk |-> Str(<<48>>), cbCalls |-> 0]
        ELSE [err |-> "none", psk |-> psk.val, cbCalls |-> 0]

\* lines 242-251: the secret wifi_connect goes on with, or the error raised
ResolveSecret(store, ssid, cb, fault) ==
    LET psk == load_psk(store, ssid, fault)
    IN  IF psk.err # "none"
        THEN [err |-> psk.err, psk |-> NoneVal, cbCalls |-> 0]
        ELSE IF ~Truthy(psk.val)
        THEN IF cb # "none"
             THEN IF ~Truthy(CallbackReturn(cb))
                  THEN [err |-> "Heslicko", psk |-> NoneVal, cbCalls |-> 1]
                  ELSE [err |-> "none", psk |-> CallbackReturn(cb), cbCalls |-> 1]
             ELSE [err |-> "Unknown network", psk |-> NoneVal, cbCalls |-> 0]
        ELSE [err |-> "none", psk |-> psk.val, cbCalls |-> 0]

\* the error kinds of the design, by the place that raises
ErrorKind(err) ==
    CASE err = "Chybka" -> "UnknownNetwork"
      [] err = "Unknown network" -> "UnknownNetwork"
      [] err = "Heslicko" -> "UnknownNetwork"
      [] err = "Wi-Fi connection failed" -> "ConnectionFailed"
      [] err = "interface error" -> "InterfaceError"
      [] OTHER -> "none"

Logged(call) == [w EXCEPT !.calls = Append(@, call)]

\* an exception that leaves wifi_connect as it is
Propagate(ww, err) == [ww EXCEPT !.pc = "done", !.err = err]

\* an exception inside the try block: control goes to the except clause
Caught(ww, cause) == [ww EXCEPT !.pc = "cleanup", !.cause = cause]

ConnectStart(ssid, cb, timeout, fault) ==
    LET r == ResolveSecret(nvs, ssid, cb, fault)
        ww == [WIdle EXCEPT !.ssid = ssid, !.cb = cb, !.timeout = timeout,
                            !.rec = nvs[ssid], !.psk = r.psk, !.cbCalls = r.cbCalls]
    IN  /\ Idle
        /\ w' = IF r.err # "none" THEN Propagate(ww, r.err)
                ELSE [ww EXCEPT !.pc = "active"]
        /\ last' = NoCall
        /\ prev' = Earlier(NoCall)
        /\ UNCHANGED <<derived, parked, kdf, nvs, dirty, wlan>>

\* line 254: wlan.active(True)
Activate(raised) ==
    /\ w.pc = "active"
    /\ IF raised
       THEN /\ w' = Propagate([Logged("active(True)") EXCEPT !.raised = TRUE], "interface error")
            /\ UNCHANGED wlan
       ELSE /\ w' = [Logged("active(True)") EXCEPT !.pc = "isconnected"]
            /\ wlan' = [wlan EXCEPT !.active = TRUE]
    /\ UNCHANGED <<derived, parked, kdf, nvs, dirty, last, prev>>

\* line 257: if wlan.isconnected()
CheckConnected(raised) ==
    /\ w.pc = "isconnected"
    /\ w' = IF raised
            THEN Propagate([Logged("isconnected") EXCEPT !.raised = TRUE], "interface error")
            ELSE IF wlan.essid # NoneVal
            THEN [Logged("isconnected") EXCEPT !.pc = "essid", !.seen = TRUE]
            ELSE [Logged("isconnected") EXCEPT !.pc = "hostname"]
    /\ UNCHANGED <<derived, parked, kdf, nvs, dirty, last, prev, wlan>>

\* lines 258-264 without the disconnect of the other network
MutCurrentSsid(raised) ==
    /\ w.pc = "essid"
    /\ w' = IF raised
            THEN Propagate([Logged("config(essid)") EXCEPT !.raised = TRUE], "interface error")
            ELSE IF wlan.essid = Str(w.ssid)
            THEN [Logged("config(essid)") EXCEPT !.pc = "done"]
            ELSE [Logged("config(essid)") EXCEPT !.pc = "hostname"]
    /\ UNCHANGED <<derived, parked, kdf, nvs, dirty, last, prev, wlan>>

\* lines 258-261: current_ssid = wlan.config("essid")
CurrentSsid(raised) ==
    /\ w.pc = "essid"
    /\ w' = IF raised
            THEN Propagate([Logged("config(essid)") EXCEPT !.raised = TRUE], "interface error")
            ELSE IF wlan.essid = Str(w.ssid)
            THEN [Logged("config(essid)") EXCEPT !.pc = "done"]
            ELSE [Logged("config(essid)") EXCEPT !.pc = "disconnect"]
    /\ UNCHANGED <<derived, parked, kdf, nvs, dirty, last, prev, wlan>>

\* line 264: wlan.disconnect()
Disconnect(raised) ==
    /\ w.pc = "disconnect"
    /\ IF raised
       THEN /\ w' = Propagate([Logged("disconnect") EXCEPT !.raised = TRUE], "interface error")
            /\ UNCHANGED wlan
       ELSE /\ w' = [Logged("disconnect") EXCEPT !.pc = "hostname"]
            /\ wlan' = [wlan EXCEPT !.essid = NoneVal, !.target = NoneVal, !.key = NoneVal]
    /\ UNCHANGED <<derived, parked, kdf, nvs, dirty, last, prev>>

\* line 268: wlan.config(dhcp_hostname=hostname)
SetHostname(raised) ==
    /\ w.pc = "hostname"
    /\ w' = IF raised
            THEN Caught([Logged("config(dhcp_hostname)") EXCEPT !.raised = TRUE], "interface error")
            ELSE [Logged("config(dhcp_hostname)") EXCEPT !.pc = "connect"]
    /\ UNCHANGED <<derived, parked, kdf, nvs, dirty, last, prev, wlan>>

\* connect handed the stored bytes instead of the text load_psk returned
MutAssociate(raised) ==
    /\ w.pc = "connect"
    /\ IF raised
       THEN /\ w' = Caught([Logged("connect") EXCEPT !.raised = TRUE], "interface error")
            /\ UNCHANGED wlan
       ELSE /\ w' = [Logged("connect") EXCEPT !.pc = "poll", !.i = 0]
            /\ wlan' = [wlan EXCEPT !.target = Str(w.ssid), !.key = w.rec]
    /\ UNCHANGED <<derived, parked, kdf, nvs, dirty, last, prev>>

\* line 269: wlan.connect(ssid, psk)
Associate(raised) ==
    /\ w.pc = "connect"
    /\ IF raised
       THEN /\ w' = Caught([Logged("connect") EXCEPT !.raised = TRUE], "interface error")
            /\ UNCHANGED wlan
       ELSE /\ w' = [Logged("connect") EXCEPT !.pc = "poll", !.i = 0]
            /\ wlan' = [wlan EXCEPT !.target = Str(w.ssid), !.key = w.psk]
    /\ UNCHANGED <<derived, parked, kdf, nvs, dirty, last, prev>>

\* the loop of lines 272-277 making one pass too many
MutPoll(raised, up) ==
    /\ w.pc = "poll"
    /\ w.i <= w.timeout
    /\ IF raised
       THEN /\ w' = Caught([Logged("isconnected") EXCEPT !.raised = TRUE], "interface error")
            /\ UNCHANGED wlan
       ELSE IF up
       THEN /\ w' = [Logged("isconnected") EXCEPT !.pc = "ifconfig", !.seen = TRUE]
            /\ wlan' = [wlan EXCEPT !.essid = wlan.target]
       ELSE /\ w' = [Logged("isconnected") EXCEPT !.i = @ + 1]
            /\ UNCHANGED wlan
    /\ UNCHANGED <<derived, parked, kdf, nvs, dirty, last, prev>>

\* lines 272-277: one pass of `for _ in range(timeout)`; up is whether the
\* interface has associated by now
Poll(raised, up) ==
    /\ w.pc = "poll"
    /\ w.i < w.timeout
    /\ IF raised
       THEN /\ w' = Caught([Logged("isconnected") EXCEPT !.raised = TRUE], "interface error")
            /\ UNCHANGED wlan
       ELSE IF up
       THEN /\ w' = [Logged("isconnected") EXCEPT !.pc = "ifconfig", !.seen = TRUE]
            /\ wlan' = [wlan EXCEPT !.essid = wlan.target]
       ELSE /\ w' = [Logged("isconnected") EXCEPT !.i = @ + 1]
            /\ UNCHANGED wlan
    /\ UNCHANGED <<derived, parked, kdf, nvs, dirty, last, prev>>

\* line 280: the loop ran out: raise RuntimeError("Connection timeout ...")
PollExhausted ==
    /\ w.pc = "poll"
    /\ w.i >= w.timeout
    /\ w' = Caught(w, "Connection timeout")
    /\ UNCHANGED <<derived, parked, kdf, nvs, dirty, last, prev, wlan>>

\* lines 274-276: config = wlan.ifconfig(); return wlan
Ifconfig(raised) ==
    /\ w.pc = "ifconfig"
    /\ w' = IF raised
            THEN Caught([Logged("ifconfig") EXCEPT !.raised = TRUE], "interface error")
            ELSE [Logged("ifconfig") EXCEPT !.pc = "done"]
    /\ UNCHANGED <<derived, parked, kdf, nvs, dirty, last, prev, wlan>>

\* lines 282-285: wlan.active(False); raise RuntimeError("Wi-Fi connection failed: ...")
Cleanup(raised) ==
    /\ w.pc = "cleanup"
    /\ IF raised
       THEN /\ w' = Propagate([Logged("active(False)") EXCEPT !.raised = TRUE], "interface error")
            /\ UNCHANGED wlan
       ELSE /\ w' = Propagate(Logged("active(False)"), "Wi-Fi connection failed")
            /\ wlan' = [active |-> FALSE, essid |-> NoneVal, target |-> NoneVal, key |-> NoneVal]
    /\ UNCHANGED <<derived, parked, kdf, nvs, dirty, last, prev>>

\* the caller has the result; the next call may start
Return ==
    /\ w.pc = "done"
    /\ w' = WIdle
    /\ UNCHANGED <<derived, parked, kdf, nvs, dirty, last, prev, wlan>>

ConnStep ==
    \/ \E raised \in BOOLEAN : Activate(raised)
    \/ \E raised \in BOOLEAN : CheckConnected(raised)
    \/ \E raised \in BOOLEAN : CurrentSsid(raised)
    \/ \E raised \in BOOLEAN : Disconnect(raised)
    \/ \E raised \in BOOLEAN : SetHostname(raised)
    \/ \E raised \in BOOLEAN : Associate(raised)
    \/ \E raised \in BOOLEAN, up \in BOOLEAN : Poll(raised, up)
    \/ PollExhausted
    \/ \E raised \in BOOLEAN : Ifconfig(raised)
    \/ \E raised \in BOOLEAN : Cleanup(raised)
    \/ Return

ConnNext ==
    \/ \E ssid \in Ids, cb \in Callbacks, timeout \in 0..MaxTimeout, fault \in ReadFaults :
          ConnectStart(ssid, cb, timeout, fault)
    \/ ConnStep

(***************************************************************************)
(* PBKDF2.derive, statement by statement.                                  *)
(***************************************************************************)
MaxIterations == 2

\* passwords "p" (text) and "q" (bytes); salt "é" (text)
DerivePasswords == {Str(<<112>>), Bytes(<<113>>)}
DeriveSalts == {Str(<<233>>)}
\* dklen in bits: no block, part of a block, not a multiple of 8, one block,
\* a block and a part, the 256 bits of wpa_psk
DkLens == {0, 8, 12, 160, 168, WpaDkLen}
Prfs == {"hmac_sha1", "other_mac"}

\* the calls of derive: all combinations with few iterations, and 256
\* iterations with a progress callback at 160 and 256 bits
DeriveInputs ==
    [password : DerivePasswords, salt : DeriveSalts, iterations : 1..MaxIterations,
     dklen : DkLens, prf : Prfs, cb : BOOLEAN]
    \cup
    [password : {Str(<<112>>)}, salt : DeriveSalts, iterations : {256},
     dklen : {160, WpaDkLen}, prf : {"hmac_sha1"}, cb : {TRUE}]

DIdle ==
    [pc |-> "idle", password |-> <<>>, salt |-> <<>>, iterations |-> 0, bits |-> 0,
     dklen |-> 0, l |-> 0, prf |-> "hmac_sha1", cb |-> FALSE, i |-> 0, k |-> 0,
     u |-> <<>>, t |-> <<>>, dk |-> <<>>, done |-> 0, tot |-> 0, progress |-> <<>>,
     prfCalls |-> 0, hmacCalls |-> 0, macFault |-> FALSE, cbFault |-> FALSE,
     err |-> "none", ret |-> NoneVal]

\* an exception leaves derive: nothing is returned
Raise(dd, err) == [dd EXCEPT !.pc = "done", !.err = err, !.ret = NoneVal]

\* lines 46-69
DeriveStart(in) ==
    LET dklen == in.dklen \div 8
        l == (dklen + HLen - 1) \div HLen
        dd == [DIdle EXCEPT !.password = Buffer(in.password), !.salt = Buffer(in.salt),
                            !.iterations = in.iterations, !.bits = in.dklen,
                            !.prf = in.prf, !.cb = in.cb]
    IN  /\ Idle
        /\ kdf.pc = "idle"
        /\ kdf' = IF in.dklen % 8 # 0
                THEN Raise(dd, "ValueError")
                ELSE [dd EXCEPT !.pc = IF l >= 1 THEN "block" ELSE "final",
                                !.dklen = dklen, !.l = l, !.i = 1,
                                !.tot = in.iterations * l]
        /\ UNCHANGED <<derived, parked, nvs, dirty, last, prev, wlan, w>>

\* a MAC fault handing back the blocks completed so far
MutBlockStart(raised) ==
    /\ kdf.pc = "block"
    /\ kdf' = IF raised
            THEN [kdf EXCEPT !.pc = "done", !.prfCalls = @ + 1, !.macFault = TRUE,
                           !.err = "Big problem", !.ret = Bytes(kdf.dk)]
            ELSE LET u == CallPrf(kdf.prf, kdf.password, kdf.salt \o Be32(kdf.i))
                 IN  [kdf EXCEPT !.pc = "inner", !.prfCalls = @ + 1, !.u = u, !.t = u,
                               !.k = 1]
    /\ UNCHANGED <<derived, parked, nvs, dirty, last, prev, wlan, w>>

\* lines 72-78: block = salt + i.to_bytes(4, "big"); u = prf(password, block)
BlockStart(raised) ==
    /\ kdf.pc = "block"
    /\ kdf' = IF raised
            THEN Raise([kdf EXCEPT !.prfCalls = @ + 1, !.macFault = TRUE], "Big problem")
            ELSE LET u == CallPrf(kdf.prf, kdf.password, kdf.salt \o Be32(kdf.i))
                 IN  [kdf EXCEPT !.pc = "inner", !.prfCalls = @ + 1, !.u = u, !.t = u,
                               !.k = 1]
    /\ UNCHANGED <<derived, parked, nvs, dirty, last, prev, wlan, w>>

\* the percentage still to do instead of the percentage done
MutPercent(done, tot) == 100 - (100 * done) \div tot

\* line 85: int(100 * done / tot)
Percent(done, tot) == (100 * done) \div tot

\* lines 79-85: one pass of `for _ in range(1, iterations)`
InnerStep(raised, cbRaised) ==
    /\ kdf.pc = "inner"
    /\ kdf.k < kdf.iterations
    /\ kdf' = IF raised
            THEN Raise([kdf EXCEPT !.hmacCalls = @ + 1, !.macFault = TRUE], "Big problem")
            ELSE LET u == hmac_sha1(kdf.password, kdf.u)
                     dd == [kdf EXCEPT !.hmacCalls = @ + 1, !.u = u,
                                     !.t = XorBytes(kdf.t, u), !.done = @ + 1,
                                     !.k = @ + 1]
                 IN  IF kdf.cb /\ dd.done % ProgressEvery = 0
                     THEN IF cbRaised
                          THEN Raise([dd EXCEPT !.cbFault = TRUE,
                                        !.progress = Append(@, Percent(dd.done, kdf.tot))],
                                     "Big problem")
                          ELSE [dd EXCEPT !.progress = Append(@, Percent(dd.done, kdf.tot))]
                     ELSE dd
    /\ UNCHANGED <<derived, parked, nvs, dirty, last, prev, wlan, w>>

\* line 86: dk += bytes(t), and the next block
BlockEnd ==
    /\ kdf.pc = "inner"
    /\ kdf.k >= kdf.iterations
    /\ kdf' = [kdf EXCEPT !.dk = @ \o kdf.t, !.i = @ + 1,
                      !.pc = IF kdf.i + 1 <= kdf.l THEN "block" ELSE "final"]
    /\ UNCHANGED <<derived, parked, nvs, dirty, last, prev, wlan, w>>

\* derive returning all the blocks, not cut to dklen bytes
MutFinish(cbRaised) ==
    /\ kdf.pc = "final"
    /\ kdf' = IF kdf.cb
            THEN IF cbRaised
                 THEN Raise([kdf EXCEPT !.cbFault = TRUE, !.progress = Append(@, 100)],
                            "progress_cb error")
                 ELSE [kdf EXCEPT !.pc = "done", !.progress = Append(@, 100),
                                !.ret = Bytes(kdf.dk)]
            ELSE [kdf EXCEPT !.pc = "done", !.ret = Bytes(kdf.dk)]
    /\ UNCHANGED <<derived, parked, nvs, dirty, last, prev, wlan, w>>

\* lines 90-92: progress_cb(100) outside the try, return dk[:dklen]
Finish(cbRaised) ==
    /\ kdf.pc = "final"
    /\ kdf' = IF kdf.cb
            THEN IF cbRaised
                 THEN Raise([kdf EXCEPT !.cbFault = TRUE, !.progress = Append(@, 100)],
                            "progress_cb error")
                 ELSE [kdf EXCEPT !.pc = "done", !.progress = Append(@, 100),
                                !.ret = Bytes(SubSeq(kdf.dk, 1, kdf.dklen))]
            ELSE [kdf EXCEPT !.pc = "done", !.ret = Bytes(SubSeq(kdf.dk, 1, kdf.dklen))]
    /\ UNCHANGED <<derived, parked, nvs, dirty, last, prev, wlan, w>>

\* the caller has the result; the next call may start
DeriveReturn ==
    /\ kdf.pc = "done"
    /\ kdf' = DIdle
    /\ UNCHANGED <<derived, parked, nvs, dirty, last, prev, wlan, w>>

DeriveNext ==
    \/ \E in \in DeriveInputs : DeriveStart(in)
    \/ \E raised \in BOOLEAN : BlockStart(raised)
    \/ \E raised \in BOOLEAN, cbRaised \in BOOLEAN : InnerStep(raised, cbRaised)
    \/ BlockEnd
    \/ \E cbRaised \in BOOLEAN : Finish(cbRaised)
    \/ DeriveReturn

(***************************************************************************)
(* Specifications.                                                         *)
(***************************************************************************)
WlanDown == [active |-> FALSE, essid |-> NoneVal, target |-> NoneVal, key |-> NoneVal]

\* Spec: the calls of PSKSTORAGE, one at a time, from an empty store
Init ==
    /\ derived = WpaPskRows
    /\ nvs = [i \in Ids |-> NoneVal]
    /\ dirty = FALSE
    /\ last = NoCall
    /\ prev = Earlier(NoCall)
    /\ wlan = WlanDown
    /\ w = WIdle
    /\ parked = WIdle
    /\ kdf = DIdle

Next == StoreNext

Spec == Init /\ [][Next]_vars

\* SpecConn: calls of wifi_connect, one at a time, over a store holding for
\* each network no record, an empty record or the key derived from "p"
StoredValues(ssid) == {NoneVal, Bytes(<<>>), Bytes(WpaPskTable(ssid, <<112>>).dk)}

InitConn ==
    /\ derived = WpaPskRows
    /\ nvs \in {f \in [Ids -> UNION {StoredValues(i) : i \in Ids}] :
                  \A i \in Ids : f[i] \in StoredValues(i)}
    /\ dirty = FALSE
    /\ last = NoCall
    /\ prev = Earlier(NoCall)
    /\ wlan = WlanDown
    /\ w = WIdle
    /\ parked = WIdle
    /\ kdf = DIdle

SpecConn == InitConn /\ [][ConnNext]_vars

\* a call of wifi_connect that has started runs to its end
SpecConnFair == SpecConn /\ WF_vars(ConnStep)

\* _thread: wifi_connect takes no lock, so a second thread may call it at any
\* point of a call in progress; Yield hands the processor to the other thread
Yield ==
    /\ w # parked
    /\ w' = parked
    /\ parked' = w
    /\ UNCHANGED <<derived, kdf, nvs, dirty, last, prev, wlan>>

\* each thread calls wifi_connect(ssid, timeout=1) for a stored network
ThreadsNext ==
    \/ \E ssid \in Ids : ConnectStart(ssid, "none", 1, "none")
    \/ ConnStep
    \/ Yield

\* SpecThreads: two threads calling wifi_connect for stored networks
InitThreads ==
    /\ InitConn
    /\ \A i \in Ids : nvs[i] = Bytes(WpaPskTable(i, <<112>>).dk)

SpecThreads == InitThreads /\ [][ThreadsNext]_vars

\* SpecDerive: calls of PBKDF2.derive, one at a time
SpecDerive == Init /\ [][DeriveNext]_vars

(***************************************************************************)
(* Properties.                                                             *)
(***************************************************************************)
\* how often the call in progress has made the interface call `name`
Count(name) == Cardinality({k \in 1..Len(w.calls) : w.calls[k] = name})

\* the polls of the association loop: isconnected() after connect()
AssociationPolls ==
    Cardinality({k \in 1..Len(w.calls) :
                    /\ w.calls[k] = "isconnected"
                    /\ \E c \in 1..(k - 1) : w.calls[c] = "connect"})

Failed == w.pc = "done" /\ w.err # "none"

\* the secret came out of the store: the network is known
Known == Truthy(w.psk) /\ w.cbCalls = 0

\* block_count * iterations of wpa_psk
WpaMacCalls == (((WpaDkLen \div 8) + HLen - 1) \div HLen) * WpaIterations

\* C1: whenever wifi_connect ends with an error after it has called
\* active(True), the interface is deactivated when the error reaches the
\* caller, whichever interface call raised.
C1_DeactivatedOnFailure ==
    (Failed /\ Count("active(True)") > 0) => ~wlan.active

\* C2: for a known network whose interface never reports associated,
\* wifi_connect makes at most timeout association polls, then deactivates the
\* interface exactly once and fails with the timeout error; and every call
\* that has started ends.
C2_Bounded ==
    /\ AssociationPolls <= w.timeout
    /\ (w.pc = "done" /\ Known /\ ~w.seen /\ ~w.raised) =>
          /\ AssociationPolls = w.timeout
          /\ Count("active(False)") = 1
          /\ ~wlan.active
          /\ w.err = "Wi-Fi connection failed"
          /\ w.cause = "Connection timeout"

C2_Timeout == [](C2_Bounded) /\ ((w.pc # "idle") ~> (w.pc = "done"))

C2_Witness ==
    /\ w.pc = "done" /\ Known /\ ~w.seen /\ ~w.raised
    /\ w.timeout = MaxTimeout
    /\ AssociationPolls = MaxTimeout
    /\ w.cause = "Connection timeout"

\* C3: with no record for the network and no callback, wifi_connect fails
\* with the unknown-network error and has made no interface call.
C3_UnknownNoInterface ==
    (w.pc = "done" /\ w.rec = NoneVal /\ w.cb = "none") =>
        /\ ErrorKind(w.err) = "UnknownNetwork"
        /\ w.calls = <<>>

C3_Witness ==
    /\ w.pc = "done" /\ w.rec = NoneVal /\ w.cb = "none"
    /\ w.err = "Chybka"
    /\ w.calls = <<>>

\* C4: with no record for the network and a callback given, the callback is
\* invoked once before wifi_connect fails or proceeds; and if it yields a
\* usable secret, the secret is stored and the interface is activated.
C4_CallbackOnMiss ==
    (w.pc = "done" /\ w.rec = NoneVal /\ w.cb # "none") =>
        /\ w.cbCalls = 1
        /\ w.cb = "secret" =>
              /\ nvs[w.ssid] # NoneVal
              /\ Count("active(True)") = 1

\* C5: whenever store_psk returns True, the backend holds for the network
\* the bytes wpa_psk derives, and read / load_psk return them.
C5_RoundTrip ==
    (last.op = "store_psk" /\ last.ok) =>
        LET key == WpaPskTable(last.ssid, last.arg.data).dk
        IN  /\ nvs[last.ssid] = Bytes(key)
            /\ read(nvs, last.ssid, "none") = Bytes(key)
            /\ load_psk(nvs, last.ssid, "none").val = Str(Hex(key))

\* store_psk(id, pw) was called with the key of (id, pw) already stored
StoredAgain ==
    /\ last.op = "store_psk"
    /\ last.before = Bytes(WpaPskTable(last.ssid, last.arg.data).dk)

WrittenTwice ==
    /\ last.op = "write" /\ last.fault = "none"
    /\ prev.op = "write" /\ prev.ssid = last.ssid /\ prev.arg = last.arg

\* C7: of two writes in a row of the same secret to the same network, both
\* report success, the second one performs no set_blob and leaves the
\* backend as it was, and together they perform exactly one set_blob (none
\* if the record held the secret before the first).
C7_IdempotentWrite ==
    WrittenTwice =>
        /\ prev.ok /\ last.ok
        /\ last.sets = 0
        /\ nvs[last.ssid] = last.before
        /\ prev.sets + last.sets = (IF prev.had THEN 0 ELSE 1)

C7_Witness ==
    /\ WrittenTwice
    /\ last.arg = Str(<<233>>)
    /\ prev.sets = 1 /\ last.sets = 0

\* C8: read of a network without record returns False, read of a record
\* returns its bytes, and so a record of length zero is told from no record.
C8_AbsentIsNotEmpty ==
    /\ (last.op = "read" /\ last.fault = "none") =>
          /\ (last.before = NoneVal) <=> (last.res = FalseVal)
          /\ (last.before = Bytes(<<>>)) => (last.res = Bytes(<<>>))
    /\ \A i, j \in Ids :
          (nvs[i] = NoneVal /\ nvs[j] = Bytes(<<>>)) =>
              read(nvs, i, "none") # read(nvs, j, "none")

C8_Witness ==
    /\ last.op = "read" /\ last.fault = "none"
    /\ last.before = Bytes(<<>>) /\ last.res = Bytes(<<>>)
    /\ \E i \in Ids : nvs[i] = NoneVal /\ read(nvs, i, "none") = FalseVal

RemovedAbsent == last.op = "remove_psk" /\ last.before = NoneVal

\* C9 (as stated): remove_psk of a network without record returns True and
\* leaves the store unchanged.
C9_RemoveAbsentSucceeds == RemovedAbsent => (last.ok /\ nvs[last.ssid] = NoneVal)

\* C9 (amended): remove_psk of a network without record returns False and
\* leaves the store unchanged.
C9_RemoveAbsentFails ==
    RemovedAbsent =>
        /\ ~last.ok
        /\ nvs[last.ssid] = NoneVal
        /\ last.erases = 0 /\ last.commits = 0

C9_Witness == RemovedAbsent /\ last.fault = "none" /\ ~last.ok

\* C10: a read that meets a backend I/O error on an existing record gives
\* read / load_psk an outcome other than the one of a missing key.
C10_ErrorIsNotAbsent ==
    (last.op \in {"read", "load_psk"} /\ last.fault = "get_blob" /\ last.before # NoneVal) =>
        LET empty == [i \in Ids |-> NoneVal]
        IN  IF last.op = "read"
            THEN last.res # read(empty, last.ssid, "none")
            ELSE <<last.ok, last.res>> #
                    <<load_psk(empty, last.ssid, "none").err = "none",
                      load_psk(empty, last.ssid, "none").val>>

\* position of the first / last call `name` in the log of the call in progress
FirstCall(name) ==
    IF Count(name) = 0 THEN 0
    ELSE CHOOSE k \in 1..Len(w.calls) :
            w.calls[k] = name /\ \A j \in 1..(k - 1) : w.calls[j] # name

\* the association loop has seen the interface associated, and no interface
\* call has raised
AssociatedAtPoll ==
    /\ w.pc = "done" /\ Known /\ ~w.raised
    /\ Count("connect") > 0
    /\ AssociationPolls = w.i + 1

\* C11: for a known network, when the interface first reports associated at
\* the k-th poll, 1 <= k <= timeout, wifi_connect returns the handle
\* associated to the network, after exactly one connect(ssid, psk) with the
\* stored secret (as the text load_psk gives) and no active(False).
C11_ConnectedAtPoll ==
    AssociatedAtPoll =>
        /\ w.err = "none"
        /\ w.i + 1 <= w.timeout
        /\ wlan.active /\ wlan.essid = Str(w.ssid)
        /\ Count("connect") = 1
        /\ wlan.key = Str(Hex(w.rec.data))
        /\ Count("active(False)") = 0

C11_Witness ==
    /\ AssociatedAtPoll
    /\ w.timeout = MaxTimeout /\ w.i + 1 = MaxTimeout
    /\ wlan.essid = Str(w.ssid)
    /\ Count("active(False)") = 0

InFlight(c) ==
    c.pc \in {"isconnected", "essid", "disconnect", "hostname", "connect", "poll",
              "ifconfig", "cleanup"}

\* C13: of two threads calling wifi_connect on the one interface, at most one
\* is between active(True) and the end of its call.
C13_OneAttemptInFlight == ~(InFlight(w) /\ InFlight(parked))

\* the error kinds of the design for the exceptions of derive
DeriveErrorKind(err) ==
    CASE err = "ValueError" -> "InvalidParameter"
      [] err = "Big problem" -> "DerivationFailed"
      [] err = "progress_cb error" -> "CallbackError"
      [] OTHER -> "none"

\* neither a MAC call nor a progress callback has raised
NoFault == ~kdf.macFault /\ ~kdf.cbFault

\* C14: derive returns exactly dklen / 8 bytes when dklen is divisible by 8
\* (whatever the iterations and the number of blocks), and otherwise fails
\* with the invalid-parameter error before any MAC call or progress callback.
C14_LengthOrInvalid ==
    kdf.pc = "done" =>
        /\ (kdf.bits % 8 = 0 /\ NoFault) =>
              /\ kdf.err = "none"
              /\ kdf.ret.kind = "bytes"
              /\ Len(kdf.ret.data) * 8 = kdf.bits
        /\ (kdf.bits % 8 # 0) =>
              /\ DeriveErrorKind(kdf.err) = "InvalidParameter"
              /\ kdf.ret = NoneVal
              /\ kdf.prfCalls = 0 /\ kdf.hmacCalls = 0
              /\ kdf.progress = <<>>

C14_Witness ==
    /\ kdf.pc = "done" /\ NoFault
    /\ kdf.bits = 168 /\ kdf.iterations = MaxIterations /\ kdf.l = 2
    /\ Len(kdf.ret.data) = 21

Monotone(s) == \A a, b \in 1..Len(s) : a <= b => s[a] <= s[b]

\* C15: the percentages a progress callback receives never decrease and lie
\* in 0..100; and when derive completes with a callback, the callback was
\* called at least once and its last call was with 100.
C15_Progress ==
    /\ Monotone(kdf.progress)
    /\ \A a \in 1..Len(kdf.progress) : kdf.progress[a] \in 0..100
    /\ ~kdf.cb => kdf.progress = <<>>
    /\ (kdf.pc = "done" /\ kdf.cb /\ kdf.bits % 8 = 0 /\ NoFault) =>
          /\ Len(kdf.progress) >= 1
          /\ kdf.progress[Len(kdf.progress)] = 100

C15_Witness ==
    /\ kdf.pc = "done" /\ kdf.cb /\ NoFault
    /\ kdf.iterations = 256 /\ kdf.bits = WpaDkLen
    /\ kdf.progress = <<25, 50, 75, 100>>

\* C16: a progress callback that raises, on any of its invocations, does not
\* abort the derivation: derive still returns the derived key.
C16_CallbackFaultHarmless ==
    (kdf.pc = "done" /\ kdf.cbFault /\ ~kdf.macFault) =>
        /\ kdf.err = "none"
        /\ kdf.ret = Bytes(SubSeq(kdf.dk, 1, kdf.dklen))
        /\ Len(kdf.dk) >= kdf.dklen

\* calls of the prf handed to derive, and calls of any other MAC
SuppliedCalls == kdf.prfCalls + (IF kdf.prf = "hmac_sha1" THEN kdf.hmacCalls ELSE 0)
OtherCalls == IF kdf.prf = "hmac_sha1" THEN 0 ELSE kdf.hmacCalls

\* C18: a derivation that completes has made l * iterations calls of the
\* prf handed to it, and no call of another MAC.
C18_SuppliedMacOnly ==
    (kdf.pc = "done" /\ kdf.err = "none") =>
        /\ SuppliedCalls = kdf.l * kdf.iterations
        /\ OtherCalls = 0

\* C19: when a MAC call raises, in any block and at any iteration, derive
\* ends with the derivation-failed error and returns nothing, whatever
\* blocks were completed before.
C19_NoPartialOutput ==
    kdf.macFault =>
        /\ kdf.pc = "done"
        /\ DeriveErrorKind(kdf.err) = "DerivationFailed"
        /\ kdf.ret = NoneVal

C19_Witness ==
    /\ kdf.macFault
    /\ kdf.i = 2 /\ Len(kdf.dk) = HLen /\ kdf.hmacCalls = 2
    /\ kdf.ret = NoneVal

\* C17: a write that called set_blob and returned True has called commit
\* after it, a remove_psk that returned True has called commit after
\* erase_key, and neither leaves its mutation uncommitted.
C17_CommitBeforeSuccess ==
    /\ (last.op = "write" /\ last.ok /\ last.sets > 0) =>
          /\ last.sets = 1 /\ last.commits = 1
          /\ ~dirty
    /\ (last.op = "remove_psk" /\ last.ok) =>
          /\ last.erases = 1 /\ last.commits = 1
          /\ ~dirty
    /\ (last.op \in {"write", "remove_psk"} /\ last.fault = "commit"
            /\ last.sets + last.erases > 0) => ~last.ok

C17_Witness ==
    /\ last.op = "remove_psk" /\ last.ok /\ last.commits = 1 /\ ~dirty
    /\ prev.op = "write" /\ prev.ok /\ prev.sets = 1 /\ prev.ssid = last.ssid

\* C20: for a network whose stored secret has length zero, wifi_connect
\* takes the path of a present record: it neither calls the secret callback
\* nor fails with the unknown-network error (the read meeting no fault).
C20_EmptyRecordIsPresent ==
    (w.pc # "idle" /\ w.rec = Bytes(<<>>) /\ w.err # "Chybka") =>
        /\ w.cbCalls = 0
        /\ ErrorKind(w.err) # "UnknownNetwork"
=============================================================================
